---------------------------- MODULE Spec2Model ----------------------------
(***************************************************************************)
(* A model of the video feature pipeline of the sense library:             *)
(*   - offline feature extraction: uniform_frame_sample, compute_features  *)
(*     and FeaturesDataset of sense/finetuning.py;                         *)
(*   - the streaming pipeline (scheduler, rep counter, accumulator), whose *)
(*     code lives in modules that are only imported by the examples and    *)
(*     is therefore modelled from the design document.                     *)
(* Each part has a specification of its own; the variables of the other    *)
(* parts stay at their initial value.                                      *)
(***************************************************************************)
EXTENDS Integers, Sequences, FiniteSets, TLC

VARIABLES
    \* compute_features
    cf_pc,            \* position inside compute_features
    depth,            \* number of frames read from the video source
    video_fps,        \* video_source.get_fps()
    engine_fps,       \* inference_engine.fps
    num_timesteps,    \* parameter of compute_features
    frames,           \* the frame list (after sampling)
    clip,             \* the padded clip handed to the engine
    seen,             \* every frame the engine has consumed, in order
    pre_features,     \* outputs of the warm-up call
    features,         \* the array that np.save writes
    \* pipeline scheduler
    drop_policy,      \* PipelineConfig.drop_policy
    source_left,      \* frames the FrameSource has not yielded yet
    next_index,       \* index of the next frame the source yields
    stop,             \* the stop signal has been sent
    capture_state,    \* "running" or "exited", as the two below
    inference_state,
    output_state,
    queue1,           \* frames, capture -> inference
    queue2,           \* model step outputs, inference -> output
    pending,          \* output the inference stage holds while queue 2 is full
    delivered,        \* frames the window buffer has received
    enqueued,         \* frames ever put into queue 1
    processed,        \* frames the inference stage has taken and processed
    dropped,          \* frames discarded from queue 1 and counted
    emitted,          \* step outputs handed to the sink, in order
    at_stop,          \* the content of queue 1 when the stop signal was sent
    \* rep counter
    rep_state,        \* "Idle", "InRepPosition1" or "InRepPosition2"
    count,            \* RepCountState.count
    run1,             \* consecutive position-1 labels seen in Idle (debounce)
    last_label,       \* the smoothed label consumed last
    fed,              \* number of labels consumed
    stream_run,       \* length of the current run of position-1 labels
    longest_run,      \* longest run of position-1 labels so far (capped)
    pattern,          \* how far the stream matches idle^5 pos1^+ pos2^+ idle^5
    \* accumulator
    smoothing,        \* length of the moving-average window
    rate_window,      \* the last rate estimates, at most smoothing of them
    running_total,    \* AccumulatorState.running_total, in units of 1/TotalScale
    last_ts,          \* timestamp of the step consumed last
    sample_count,     \* AccumulatorState.sample_count
    all_positive,     \* every rate estimate so far was positive
    ts_monotone,      \* the timestamps so far never decreased
    \* FeaturesDataset
    ds_pc,            \* "ready", "returned" or "error"
    num_preds,        \* features.shape[0] of the file loaded by __getitem__
    ds_num_timesteps, \* self.num_timesteps (0 stands for None)
    ds_stride,        \* self.stride
    minimum_frames,   \* full_network_minimum_frames
    annotation,       \* self.temporal_annotations[idx]: None or a sequence
    position,         \* the position drawn, -1 if none
    ret_features,     \* rows of the file returned, by index
    ret_annotation,   \* the temporal annotation returned
    \* training_loops
    tr_pc,            \* "train", "valid", "select" or "done"
    num_epochs,       \* parameter of training_loops
    temporal_annotation_training,
    epoch,            \* number of epochs completed
    net_params,       \* content of the network's parameter tensors (a version)
    valid_metrics,    \* <<valid_loss, valid_top1>> of every epoch so far
    best_top1,
    best_loss,
    best_state_dict,  \* None, or the dictionary kept at the best epoch
    params_at_best,   \* net_params when best_state_dict was last assigned
    \* extract_features
    ex_pc,            \* "idle" between runs, else the dataset being processed
    videos,           \* per dataset, the file names in its videos directory
    feature_files,    \* per dataset, the file names in its features directory
    video_files,      \* the globbed files the loop has still to process
    runs,             \* number of completed runs of extract_features
    calls             \* per dataset and video, the calls of compute_features

cfVars == <<cf_pc, depth, video_fps, engine_fps, num_timesteps, frames, clip,
            seen, pre_features, features>>

plVars == <<drop_policy, source_left, next_index, stop, capture_state,
            inference_state, output_state, queue1, queue2, pending, delivered,
            enqueued, processed, dropped, emitted, at_stop>>

repVars == <<rep_state, count, run1, last_label, fed, stream_run, longest_run,
             pattern>>

accVars == <<smoothing, rate_window, running_total, last_ts, sample_count,
             all_positive, ts_monotone>>

dsVars == <<ds_pc, num_preds, ds_num_timesteps, ds_stride, minimum_frames,
            annotation, position, ret_features, ret_annotation>>

trVars == <<tr_pc, num_epochs, temporal_annotation_training, epoch, net_params,
            valid_metrics, best_top1, best_loss, best_state_dict,
            params_at_best>>

exVars == <<ex_pc, videos, feature_files, video_files, runs, calls>>

vars == <<cfVars, plVars, repVars, accVars, dsVars, trVars, exVars>>

\* what an action of one part leaves alone in the other parts
cfOthers == <<plVars, repVars, accVars, dsVars, trVars, exVars>>
plOthers == <<cfVars, repVars, accVars, dsVars, trVars, exVars>>
repOthers == <<cfVars, plVars, accVars, dsVars, trVars, exVars>>
accOthers == <<cfVars, plVars, repVars, dsVars, trVars, exVars>>
dsOthers == <<cfVars, plVars, repVars, accVars, trVars, exVars>>
trOthers == <<cfVars, plVars, repVars, accVars, dsVars, exVars>>
exOthers == <<cfVars, plVars, repVars, accVars, dsVars, trVars>>

-----------------------------------------------------------------------------
(* Bounds *)

MaxFrames == 50
MaxTimesteps == 2
MaxSource == 5
QueueCapacity == 2
Debounce == 2
IdleRun == 5
MaxSmoothing == 3
MaxSamples == 4
MaxPreds == 16
MaxDsTimesteps == 3
MaxAnnotation == 3
MaxEpochs == 2
MaxMetric == 2
MaxRuns == 2

(* Program constants *)

MODEL_TEMPORAL_DEPENDENCY == 45
MODEL_TEMPORAL_STRIDE == 4
InitialBestTop1 == 0
InitialBestLoss == 9999

-----------------------------------------------------------------------------
(* Helpers *)

Min(a, b) == IF a <= b THEN a ELSE b
Max(a, b) == IF a >= b THEN a ELSE b

\* Python's seq[lo:hi] for 0 <= lo, on a 1-based TLA+ sequence.
Slice(s, lo, hi) == SubSeq(s, lo + 1, Min(hi, Len(s)))

\* Python's seq[-n:] for n >= 1.
LastN(s, n) == SubSeq(s, Max(1, Len(s) - n + 1), Len(s))

\* (source fps, model fps) pairs; for each of them 1. / sample_rate is exact
\* in binary64, so the rational arithmetic below is the float arithmetic.
FpsPairs == { <<60, 20>>, <<25, 10>>, <<30, 16>>, <<16, 16>>, <<10, 16>> }

-----------------------------------------------------------------------------
(* uniform_frame_sample: the video is the sequence of its frame indices    *)
(* 0 .. depth-1; sample_rate is m / v.                                     *)

\* len(np.arange(0, depth, 1. / sample_rate)) = ceil(depth / (v / m))
NumIndices(d, v, m) == (d * m + v - 1) \div v

SampleOffsetZero(d, v, m) == 0

\* indices[-1] = (n - 1) * v / m ; offset = int((depth - indices[-1]) / 2)
SampleOffset(d, v, m) ==
    (d * m - (NumIndices(d, v, m) - 1) * v) \div (2 * m)

SampledIndexIntegerStep(i, d, v, m) == (i * (v \div m)) + SampleOffset(d, v, m)

\* (indices + offset).astype(np.int32): truncation of i * v / m + offset
SampledIndex(i, d, v, m) == ((i * v) \div m) + SampleOffset(d, v, m)

uniform_frame_sample(video, v, m) ==
    IF m < v
    THEN [i \in 1..NumIndices(Len(video), v, m) |->
             video[SampledIndex(i - 1, Len(video), v, m) + 1]]
    ELSE video

-----------------------------------------------------------------------------
(* The inference engine: an opaque strided model.  It consumes frames in   *)
(* order and produces one output per MODEL_TEMPORAL_STRIDE frames; the     *)
(* output produced on the g-th frame it has consumed is identified by g    *)
(* and depends on the MODEL_TEMPORAL_DEPENDENCY frames ending there.       *)

InferOutputs(before, n) ==
    [k \in 1..(((before + n) \div MODEL_TEMPORAL_STRIDE)
                 - (before \div MODEL_TEMPORAL_STRIDE)) |->
        MODEL_TEMPORAL_STRIDE * ((before \div MODEL_TEMPORAL_STRIDE) + k)]

\* The frames the output numbered g derives from.
Window(g) == SubSeq(seen, Max(1, g - MODEL_TEMPORAL_DEPENDENCY + 1), g)

-----------------------------------------------------------------------------
(* compute_features *)

FramesToAddNoMinusOne ==
    MODEL_TEMPORAL_STRIDE * (MODEL_TEMPORAL_DEPENDENCY \div MODEL_TEMPORAL_STRIDE + 1)

FramesToAdd ==
    MODEL_TEMPORAL_STRIDE * (MODEL_TEMPORAL_DEPENDENCY \div MODEL_TEMPORAL_STRIDE + 1) - 1

PadLeftWithLast(fr, n) ==
    [i \in 1..(n + Len(fr)) |->
        IF i <= n THEN [pos |-> Len(fr) - 1, orig |-> fr[Len(fr)], pad |-> TRUE]
                  ELSE [pos |-> i - n - 1, orig |-> fr[i - n], pad |-> FALSE]]

\* np.pad(frames, ((frames_to_add, 0), ...), mode='edge')
PadEdgeLeft(fr, n) ==
    [i \in 1..(n + Len(fr)) |->
        IF i <= n THEN [pos |-> 0, orig |-> fr[1], pad |-> TRUE]
                  ELSE [pos |-> i - n - 1, orig |-> fr[i - n], pad |-> FALSE]]

WarmUpClip(c) == Slice(c, 0, FramesToAdd + 1)

RestClipFromPadEnd(c) == Slice(c, FramesToAdd, Len(c))

RestClip(c) == Slice(c, FramesToAdd + 1, Len(c))

ConcatPredictionsOnly(tdf, predictions) == predictions

ConcatFeatures(tdf, predictions) == tdf \o predictions

CfInit ==
    /\ cf_pc = "read"
    /\ depth \in 0..MaxFrames
    /\ \E p \in FpsPairs : video_fps = p[1] /\ engine_fps = p[2]
    /\ num_timesteps \in 1..MaxTimesteps
    /\ frames = [i \in 1..depth |-> i - 1]
    /\ clip = <<>>
    /\ seen = <<>>
    /\ pre_features = <<>>
    /\ features = <<>>

\* line 177; an empty frame array makes indices[-1] (or the later np.pad) raise
Sample ==
    /\ cf_pc = "read"
    /\ IF depth = 0
       THEN cf_pc' = "error" /\ frames' = frames
       ELSE /\ cf_pc' = "sampled"
            /\ frames' = uniform_frame_sample(frames, video_fps, engine_fps)
    /\ UNCHANGED cfOthers
    /\ UNCHANGED <<depth, video_fps, engine_fps, num_timesteps, clip, seen,
                   pre_features, features>>

\* lines 182-190
Pad ==
    /\ cf_pc = "sampled"
    /\ clip' = PadEdgeLeft(frames, FramesToAdd)
    /\ cf_pc' = "padded"
    /\ UNCHANGED cfOthers
    /\ UNCHANGED <<depth, video_fps, engine_fps, num_timesteps, frames, seen,
                   pre_features, features>>

\* lines 194-198
WarmUp ==
    /\ cf_pc = "padded"
    /\ pre_features' = InferOutputs(Len(seen), Len(WarmUpClip(clip)))
    /\ seen' = seen \o WarmUpClip(clip)
    /\ cf_pc' = "warm"
    /\ UNCHANGED cfOthers
    /\ UNCHANGED <<depth, video_fps, engine_fps, num_timesteps, frames, clip,
                   features>>

\* lines 201-205
Predict ==
    /\ cf_pc = "warm"
    /\ features' = ConcatFeatures(LastN(pre_features, num_timesteps),
                                  InferOutputs(Len(seen), Len(RestClip(clip))))
    /\ seen' = seen \o RestClip(clip)
    /\ cf_pc' = "saved"
    /\ UNCHANGED cfOthers
    /\ UNCHANGED <<depth, video_fps, engine_fps, num_timesteps, frames, clip,
                   pre_features>>

CfNext == Sample \/ Pad \/ WarmUp \/ Predict

\* compute_features not running
CfOff ==
    /\ cf_pc = "off" /\ depth = 0 /\ video_fps = 0 /\ engine_fps = 0
    /\ num_timesteps = 0 /\ frames = <<>> /\ clip = <<>> /\ seen = <<>>
    /\ pre_features = <<>> /\ features = <<>>

-----------------------------------------------------------------------------
(* PipelineScheduler: capture, inference and output stages connected by    *)
(* two bounded FIFO queues, with a cooperative stop signal.                *)

Range(q) == {q[i] : i \in 1..Len(q)}

PlInit ==
    /\ drop_policy \in {"block", "drop-oldest"}
    /\ source_left \in 1..MaxSource
    /\ next_index = 0
    /\ stop = FALSE
    /\ capture_state = "running"
    /\ inference_state = "running"
    /\ output_state = "running"
    /\ queue1 = <<>>
    /\ queue2 = <<>>
    /\ pending = <<>>
    /\ delivered = 0
    /\ enqueued = {}
    /\ processed = {}
    /\ dropped = {}
    /\ emitted = <<>>
    /\ at_stop = {}

PlOff ==
    /\ drop_policy = "block" /\ source_left = 0 /\ next_index = 0
    /\ stop = FALSE /\ capture_state = "off" /\ inference_state = "off"
    /\ output_state = "off" /\ queue1 = <<>> /\ queue2 = <<>>
    /\ pending = <<>> /\ delivered = 0 /\ enqueued = {} /\ processed = {}
    /\ dropped = {} /\ emitted = <<>> /\ at_stop = {}

\* Capture stage: reads a frame and pushes it into queue 1.  A full queue
\* blocks the stage under "block"; under "drop-oldest" the oldest undelivered
\* item is discarded and counted.
DropOldest(q, d) == <<Tail(q), d \cup {Head(q)}>>

Capture ==
    /\ capture_state = "running" /\ ~stop /\ source_left > 0
    /\ \/ /\ Len(queue1) < QueueCapacity
          /\ queue1' = Append(queue1, next_index)
          /\ dropped' = dropped
       \/ /\ Len(queue1) >= QueueCapacity
          /\ drop_policy = "drop-oldest"
          /\ queue1' = Append(DropOldest(queue1, dropped)[1], next_index)
          /\ dropped' = DropOldest(queue1, dropped)[2]
    /\ enqueued' = enqueued \cup {next_index}
    /\ next_index' = next_index + 1
    /\ source_left' = source_left - 1
    /\ UNCHANGED plOthers
    /\ UNCHANGED <<drop_policy, stop, capture_state, inference_state,
                   output_state, queue2, pending, delivered, processed,
                   emitted, at_stop>>

\* The stop signal, sent from outside at any time.
Stop ==
    /\ ~stop /\ output_state = "running"
    /\ stop' = TRUE
    /\ at_stop' = Range(queue1)
    /\ UNCHANGED plOthers
    /\ UNCHANGED <<drop_policy, source_left, next_index, capture_state,
                   inference_state, output_state, queue1, queue2, pending,
                   delivered, enqueued, processed, dropped, emitted>>

\* Capture stops first: when the source is exhausted or the stop signal came.
CaptureExit ==
    /\ capture_state = "running"
    /\ stop \/ source_left = 0
    /\ capture_state' = "exited"
    /\ UNCHANGED plOthers
    /\ UNCHANGED <<drop_policy, source_left, next_index, stop, inference_state,
                   output_state, queue1, queue2, pending, delivered, enqueued,
                   processed, dropped, emitted, at_stop>>

\* One step output per MODEL_TEMPORAL_STRIDE delivered frames, the first one
\* on the first frame (warm-up padding supplies its history).
StepOutput(frame, n) ==
    IF n % MODEL_TEMPORAL_STRIDE = 0 THEN <<n \div MODEL_TEMPORAL_STRIDE>>
                                     ELSE <<>>

\* Inference stage: takes the oldest frame of queue 1 through the window
\* buffer and the model.
InferStep ==
    /\ inference_state = "running" /\ queue1 # <<>> /\ pending = <<>>
    /\ queue1' = Tail(queue1)
    /\ processed' = processed \cup {Head(queue1)}
    /\ delivered' = delivered + 1
    /\ pending' = StepOutput(Head(queue1), delivered)
    /\ UNCHANGED plOthers
    /\ UNCHANGED <<drop_policy, source_left, next_index, stop, capture_state,
                   inference_state, output_state, queue2, enqueued, dropped,
                   emitted, at_stop>>

\* ... and pushes the step output into queue 2, blocking while it is full.
InferPush ==
    /\ inference_state = "running" /\ pending # <<>>
    /\ Len(queue2) < QueueCapacity
    /\ queue2' = Append(queue2, Head(pending))
    /\ pending' = <<>>
    /\ UNCHANGED plOthers
    /\ UNCHANGED <<drop_policy, source_left, next_index, stop, capture_state,
                   inference_state, output_state, queue1, delivered, enqueued,
                   processed, dropped, emitted, at_stop>>

InferenceMayExitOnStop == stop \/ capture_state = "exited"

\* The inference stage exits once capture has stopped and queue 1 is drained.
InferenceMayExit ==
    capture_state = "exited" /\ queue1 = <<>> /\ pending = <<>>

InferenceExit ==
    /\ inference_state = "running"
    /\ InferenceMayExit
    /\ inference_state' = "exited"
    /\ UNCHANGED plOthers
    /\ UNCHANGED <<drop_policy, source_left, next_index, stop, capture_state,
                   output_state, queue1, queue2, pending, delivered, enqueued,
                   processed, dropped, emitted, at_stop>>

\* Output stage: takes the oldest step output of queue 2 to the sink.
OutputStep ==
    /\ output_state = "running" /\ queue2 # <<>>
    /\ queue2' = Tail(queue2)
    /\ emitted' = Append(emitted, Head(queue2))
    /\ UNCHANGED plOthers
    /\ UNCHANGED <<drop_policy, source_left, next_index, stop, capture_state,
                   inference_state, output_state, queue1, pending, delivered,
                   enqueued, processed, dropped, at_stop>>

\* The output stage exits once inference has exited and queue 2 is drained.
OutputExit ==
    /\ output_state = "running"
    /\ inference_state = "exited" /\ queue2 = <<>>
    /\ output_state' = "exited"
    /\ UNCHANGED plOthers
    /\ UNCHANGED <<drop_policy, source_left, next_index, stop, capture_state,
                   inference_state, queue1, queue2, pending, delivered,
                   enqueued, processed, dropped, emitted, at_stop>>

PlNext ==
    \/ Capture \/ Stop \/ CaptureExit \/ InferStep \/ InferPush
    \/ InferenceExit \/ OutputStep \/ OutputExit

-----------------------------------------------------------------------------
(* Rep counter: a state machine driven by the smoothed label stream.       *)

Labels == {"idle", "position-1", "position-2", "background"}

\* long enough for idle^IdleRun pos1^(Debounce+1) pos2^(Debounce+1) idle^IdleRun
MaxLabels == 2 * IdleRun + 2 * (Debounce + 1) + 1

RepInit ==
    /\ rep_state = "Idle"
    /\ count = 0
    /\ run1 = 0
    /\ last_label = "none"
    /\ fed = 0
    /\ stream_run = 0
    /\ longest_run = 0
    /\ pattern = [ph |-> "idle1", k |-> 0]

RepOff ==
    /\ rep_state = "off" /\ count = 0 /\ run1 = 0 /\ last_label = "none"
    /\ fed = 0 /\ stream_run = 0 /\ longest_run = 0
    /\ pattern = [ph |-> "off", k |-> 0]

NotDebounced(n) == n >= 1

\* a label run is accepted once it has lasted Debounce steps
Sustained(n) == n >= Debounce

\* The next state of the machine: <<state, count, run1>>.
RepTransition(st, c, r, label) ==
    IF label = "background" THEN <<"Idle", c, 0>>
    ELSE IF st = "Idle" THEN
        IF label = "position-1"
        THEN IF Sustained(r + 1) THEN <<"InRepPosition1", c, 0>>
                                 ELSE <<"Idle", c, r + 1>>
        ELSE <<"Idle", c, 0>>
    ELSE IF st = "InRepPosition1" THEN
        IF label = "position-2" THEN <<"InRepPosition2", c, 0>>
                                ELSE <<"InRepPosition1", c, 0>>
    ELSE
        IF label = "position-2" THEN <<"InRepPosition2", c, 0>>
        ELSE <<"Idle", c + 1, IF label = "position-1" THEN 1 ELSE 0>>

\* Bookkeeping of the stream fed so far, for the properties below.
PatternNext(p, label) ==
    IF p.ph = "idle1" THEN
        IF label = "idle" /\ p.k < IdleRun THEN [ph |-> "idle1", k |-> p.k + 1]
        ELSE IF label = "position-1" /\ p.k = IdleRun THEN [ph |-> "pos1", k |-> 1]
        ELSE [ph |-> "off", k |-> 0]
    ELSE IF p.ph = "pos1" THEN
        IF label = "position-1" THEN [ph |-> "pos1", k |-> Min(p.k + 1, Debounce + 1)]
        ELSE IF label = "position-2" /\ p.k > Debounce THEN [ph |-> "pos2", k |-> 1]
        ELSE [ph |-> "off", k |-> 0]
    ELSE IF p.ph = "pos2" THEN
        IF label = "position-2" THEN [ph |-> "pos2", k |-> Min(p.k + 1, Debounce + 1)]
        ELSE IF label = "idle" /\ p.k > Debounce THEN [ph |-> "idle2", k |-> 1]
        ELSE [ph |-> "off", k |-> 0]
    ELSE IF p.ph = "idle2" THEN
        IF label = "idle" /\ p.k < IdleRun THEN [ph |-> "idle2", k |-> p.k + 1]
        ELSE [ph |-> "off", k |-> 0]
    ELSE [ph |-> "off", k |-> 0]

RepStep(label) ==
    /\ rep_state # "off" /\ fed < MaxLabels
    /\ LET t == RepTransition(rep_state, count, run1, label)
           sr == IF label = "position-1" THEN stream_run + 1 ELSE 0
       IN /\ rep_state' = t[1]
          /\ count' = t[2]
          /\ run1' = t[3]
          /\ stream_run' = Min(sr, Debounce)
          /\ longest_run' = Max(longest_run, Min(sr, Debounce))
    /\ last_label' = label
    /\ fed' = fed + 1
    /\ pattern' = PatternNext(pattern, label)
    /\ UNCHANGED repOthers

Postprocess == \E label \in Labels : RepStep(label)

-----------------------------------------------------------------------------
(* Accumulator: a moving average of the rate estimates, integrated over    *)
(* the time elapsed between consecutive steps.                             *)

RECURSIVE Factorial(_)
Factorial(n) == IF n <= 1 THEN 1 ELSE n * Factorial(n - 1)

\* running_total is kept as an integer number of 1/TotalScale units, so that
\* the average over a window of any length up to MaxSmoothing is exact.
TotalScale == Factorial(MaxSmoothing)

RECURSIVE SumSeq(_)
SumSeq(q) == IF q = <<>> THEN 0 ELSE Head(q) + SumSeq(Tail(q))

Rates == {-1, 1, 2}
TimeDeltas == {-1, 0, 1}

AccInit ==
    /\ smoothing \in 1..MaxSmoothing
    /\ rate_window = <<>>
    /\ running_total = 0
    /\ last_ts = 0
    /\ sample_count = 0
    /\ all_positive = TRUE
    /\ ts_monotone = TRUE

AccOff ==
    /\ smoothing = 0 /\ rate_window = <<>> /\ running_total = 0 /\ last_ts = 0
    /\ sample_count = 0 /\ all_positive = TRUE /\ ts_monotone = TRUE

\* the fixed-window moving average, times TotalScale
SmoothedRate(w) == (SumSeq(w) * TotalScale) \div Len(w)

ElapsedReversed(ts, prev) == prev - ts

\* the timestamp delta of a step
Elapsed(ts, prev) == ts - prev

Accumulate(rate, ts) ==
    /\ smoothing > 0 /\ sample_count < MaxSamples
    /\ LET w == LastN(Append(rate_window, rate), smoothing) IN
          /\ rate_window' = w
          /\ running_total' =
                IF sample_count = 0 THEN running_total
                ELSE running_total + SmoothedRate(w) * Elapsed(ts, last_ts)
    /\ last_ts' = ts
    /\ sample_count' = sample_count + 1
    /\ all_positive' = (all_positive /\ rate > 0)
    /\ ts_monotone' = (ts_monotone /\ (sample_count = 0 \/ ts >= last_ts))
    /\ UNCHANGED smoothing
    /\ UNCHANGED accOthers

AccStep ==
    \E rate \in Rates : \E d \in TimeDeltas : Accumulate(rate, last_ts + d)

-----------------------------------------------------------------------------
(* FeaturesDataset *)

DsMinimumFrames == {1, 9, MODEL_TEMPORAL_DEPENDENCY}
DsStrides == {2, MODEL_TEMPORAL_STRIDE}

\* None, or a list of temporal labels (0 is the background label)
None == [present |-> FALSE, labels |-> <<>>]

Annotations ==
    {None} \cup {[present |-> TRUE, labels |-> l] :
                   l \in UNION {[1..n -> {0, 1}] : n \in 0..MaxAnnotation}}

\* line 51: int((full_network_minimum_frames - 1) / self.stride)
NumFramesPadded(f, st) == (f - 1) \div st

MinimumPositionZero(np, nt, padded) == 0

\* lines 84-86
MinimumPosition(np, nt, padded) == Max(Min(np - nt - 1, padded), 0)

\* the rows of the loaded file
Rows(np) == [i \in 1..np |-> i - 1]

DsInit ==
    /\ ds_pc = "ready"
    /\ num_preds \in 0..MaxPreds
    /\ ds_num_timesteps \in 0..MaxDsTimesteps
    /\ ds_stride \in DsStrides
    /\ minimum_frames \in DsMinimumFrames
    /\ annotation \in Annotations
    /\ position = -1
    /\ ret_features = <<>>
    /\ ret_annotation = <<>>

DsOff ==
    /\ ds_pc = "off" /\ num_preds = 0 /\ ds_num_timesteps = 0 /\ ds_stride = 0
    /\ minimum_frames = 0 /\ annotation = None /\ position = -1
    /\ ret_features = <<>> /\ ret_annotation = <<>>

\* line 90-92
ReturnedAnnotation(a) == IF ~a.present THEN <<-100>> ELSE a.labels

\* lines 56-92
GetItem ==
    /\ ds_pc = "ready"
    /\ IF ds_num_timesteps # 0 /\ num_preds > ds_num_timesteps
       THEN IF annotation.present
            THEN \* lines 66-81; np.random.choice on an empty array raises
                 IF Len(annotation.labels) = 0
                 THEN /\ ds_pc' = "error"
                      /\ UNCHANGED <<position, ret_features, ret_annotation>>
                 ELSE \E pos \in 0..(Len(annotation.labels) - 1) :
                      LET k == MODEL_TEMPORAL_STRIDE \div ds_stride IN
                        /\ position' = pos
                        /\ ret_annotation' = Slice(annotation.labels, pos, pos + 1)
                        /\ ret_features' = Slice(Rows(num_preds), pos * k,
                                                 pos * k + ds_num_timesteps)
                        /\ ds_pc' = "returned"
            ELSE \* lines 83-88; np.random.randint(low, high) raises if low >= high
                 LET low == MinimumPosition(num_preds, ds_num_timesteps,
                                NumFramesPadded(minimum_frames, ds_stride))
                     high == num_preds - ds_num_timesteps
                 IN IF low >= high
                    THEN /\ ds_pc' = "error"
                         /\ UNCHANGED <<position, ret_features, ret_annotation>>
                    ELSE \E pos \in low..(high - 1) :
                           /\ position' = pos
                           /\ ret_features' = Slice(Rows(num_preds), pos,
                                                    pos + ds_num_timesteps)
                           /\ ret_annotation' = ReturnedAnnotation(annotation)
                           /\ ds_pc' = "returned"
       ELSE /\ ret_features' = Rows(num_preds)
            /\ ret_annotation' = ReturnedAnnotation(annotation)
            /\ ds_pc' = "returned"
            /\ UNCHANGED position
    /\ UNCHANGED <<num_preds, ds_num_timesteps, ds_stride, minimum_frames,
                   annotation>>
    /\ UNCHANGED dsOthers

-----------------------------------------------------------------------------
(* training_loops.  The parameter tensors of the network are one object;   *)
(* net_params is their content, which optimizer.step() changes in place.   *)
(* valid_top1 is counted in units of 1 / MaxMetric.                        *)

NoStateDict == [present |-> FALSE, shared |-> FALSE, value |-> 0]

\* net.state_dict().copy(): state_dict() returns the tensors detached, which
\* share their storage with the parameters, and dict.copy() is shallow: the
\* new dictionary refers to the same tensors.
StateDictCopy(params) == [present |-> TRUE, shared |-> TRUE, value |-> params]

\* the values a state dictionary holds now
Held(sd) == IF sd.shared THEN net_params ELSE sd.value

TrInit ==
    /\ tr_pc = "train"
    /\ num_epochs \in 1..MaxEpochs
    /\ temporal_annotation_training \in BOOLEAN
    /\ epoch = 0
    /\ net_params = 0
    /\ valid_metrics = <<>>
    /\ best_top1 = InitialBestTop1
    /\ best_loss = InitialBestLoss
    /\ best_state_dict = NoStateDict
    /\ params_at_best = 0

TrOff ==
    /\ tr_pc = "off" /\ num_epochs = 0 /\ temporal_annotation_training = FALSE
    /\ epoch = 0 /\ net_params = 0 /\ valid_metrics = <<>> /\ best_top1 = 0
    /\ best_loss = 0 /\ best_state_dict = NoStateDict /\ params_at_best = 0

\* lines 279-290 and 356-359: one epoch of optimizer steps; the parameters
\* get a new content (or keep it, if every gradient step was zero)
TrainEpoch ==
    /\ tr_pc = "train" /\ epoch < num_epochs
    /\ net_params' \in {net_params, epoch + 1}
    /\ tr_pc' = "valid"
    /\ UNCHANGED <<num_epochs, temporal_annotation_training, epoch,
                   valid_metrics, best_top1, best_loss, best_state_dict,
                   params_at_best>>
    /\ UNCHANGED trOthers

\* lines 291-296: run_epoch without optimizer changes no parameter
ValidEpoch ==
    /\ tr_pc = "valid"
    /\ \E loss \in 0..MaxMetric : \E top1 \in 0..MaxMetric :
          valid_metrics' = Append(valid_metrics, <<loss, top1>>)
    /\ tr_pc' = "select"
    /\ UNCHANGED <<num_epochs, temporal_annotation_training, epoch, net_params,
                   best_top1, best_loss, best_state_dict, params_at_best>>
    /\ UNCHANGED trOthers

\* lines 298-306
SelectBest ==
    /\ tr_pc = "select"
    /\ LET valid_loss == valid_metrics[Len(valid_metrics)][1]
           valid_top1 == valid_metrics[Len(valid_metrics)][2]
       IN IF ~temporal_annotation_training
          THEN IF valid_top1 > best_top1
               THEN /\ best_top1' = valid_top1
                    /\ best_state_dict' = StateDictCopy(net_params)
                    /\ params_at_best' = net_params
                    /\ UNCHANGED best_loss
               ELSE UNCHANGED <<best_top1, best_loss, best_state_dict,
                                params_at_best>>
          ELSE IF valid_loss < best_loss
               THEN /\ best_loss' = valid_loss
                    /\ best_state_dict' = StateDictCopy(net_params)
                    /\ params_at_best' = net_params
                    /\ UNCHANGED best_top1
               ELSE UNCHANGED <<best_top1, best_loss, best_state_dict,
                                params_at_best>>
    /\ epoch' = epoch + 1
    /\ tr_pc' = "train"
    /\ UNCHANGED <<num_epochs, temporal_annotation_training, net_params,
                   valid_metrics>>
    /\ UNCHANGED trOthers

\* lines 308-309
Finish ==
    /\ tr_pc = "train" /\ epoch = num_epochs
    /\ tr_pc' = "done"
    /\ UNCHANGED <<num_epochs, temporal_annotation_training, epoch, net_params,
                   valid_metrics, best_top1, best_loss, best_state_dict,
                   params_at_best>>
    /\ UNCHANGED trOthers

TrNext == TrainEpoch \/ ValidEpoch \/ SelectBest \/ Finish

-----------------------------------------------------------------------------
(* extract_features.  A file name is the sequence of its parts between     *)
(* dots: "a.mp4.avi" is <<"a", "mp4", "avi">>.  Every video is in the one  *)
(* label directory of its dataset.                                         *)

Datasets == {"train", "valid"}

\* the names a videos directory may hold
VideoNames == {<<"a", "avi">>, <<"b", "avi">>, <<"a", "mp4">>,
               <<"a", "mp4", "avi">>}

\* glob.glob(os.path.join(videos_dir, "*", "*.avi"))
Glob(files) == {f \in files : Len(f) >= 2 /\ f[Len(f)] = "avi"}

\* video_path.replace(videos_dir, features_dir).replace(".mp4", ".npy"): the
\* same name in the features directory, every ".mp4" in it made ".npy"
PathOut(video_path) ==
    [i \in 1..Len(video_path) |->
        IF i > 1 /\ video_path[i] = "mp4" THEN "npy" ELSE video_path[i]]

\* np.save(path_out, features) appends ".npy" to a name that does not end
\* in it
NpSaveName(path_out) ==
    IF path_out[Len(path_out)] = "npy" THEN path_out
    ELSE Append(path_out, "npy")

ExInit ==
    /\ ex_pc = "idle"
    /\ videos \in [Datasets -> SUBSET VideoNames]
    /\ feature_files = [d \in Datasets |-> {}]
    /\ video_files = {}
    /\ runs = 0
    /\ calls = [d \in Datasets |-> [v \in VideoNames |-> 0]]

ExOff ==
    /\ ex_pc = "off"
    /\ videos = [d \in Datasets |-> {}]
    /\ feature_files = [d \in Datasets |-> {}]
    /\ video_files = {}
    /\ runs = 0
    /\ calls = [d \in Datasets |-> [v \in VideoNames |-> 0]]

\* lines 243-251: a run begins with the "train" dataset
StartRun ==
    /\ ex_pc = "idle" /\ runs < MaxRuns
    /\ ex_pc' = "train"
    /\ video_files' = Glob(videos["train"])
    /\ UNCHANGED <<videos, feature_files, runs, calls>>
    /\ UNCHANGED exOthers

\* lines 255-265, and compute_features' lines 204-205
ProcessVideo ==
    /\ ex_pc \in Datasets
    /\ \E video_path \in video_files :
          LET path_out == PathOut(video_path)
          IN /\ IF path_out \in feature_files[ex_pc]
                THEN UNCHANGED <<feature_files, calls>>
                ELSE /\ feature_files' =
                           [feature_files EXCEPT
                               ![ex_pc] = @ \cup {NpSaveName(path_out)}]
                     /\ calls' = [calls EXCEPT ![ex_pc][video_path] = @ + 1]
             /\ video_files' = video_files \ {video_path}
    /\ UNCHANGED <<ex_pc, videos, runs>>
    /\ UNCHANGED exOthers

\* line 248: the loop over the datasets goes on to "valid"
NextDataset ==
    /\ ex_pc = "train" /\ video_files = {}
    /\ ex_pc' = "valid"
    /\ video_files' = Glob(videos["valid"])
    /\ UNCHANGED <<videos, feature_files, runs, calls>>
    /\ UNCHANGED exOthers

\* line 267: the run ends
EndRun ==
    /\ ex_pc = "valid" /\ video_files = {}
    /\ ex_pc' = "idle"
    /\ runs' = runs + 1
    /\ UNCHANGED <<videos, feature_files, video_files, calls>>
    /\ UNCHANGED exOthers

ExNext == StartRun \/ ProcessVideo \/ NextDataset \/ EndRun

-----------------------------------------------------------------------------
(* Specifications *)

FeaturesInit == CfInit /\ PlOff /\ RepOff /\ AccOff /\ DsOff /\ TrOff
    /\ ExOff

SpecFeatures == FeaturesInit /\ [][CfNext]_vars

PipelineInit == PlInit /\ CfOff /\ RepOff /\ AccOff /\ DsOff /\ TrOff
    /\ ExOff

SpecPipeline == PipelineInit /\ [][PlNext]_vars

RepCounterInit == RepInit /\ CfOff /\ PlOff /\ AccOff /\ DsOff /\ TrOff
    /\ ExOff

SpecRepCounter == RepCounterInit /\ [][Postprocess]_vars

AccumulatorInit == AccInit /\ CfOff /\ PlOff /\ RepOff /\ DsOff /\ TrOff
    /\ ExOff

SpecAccumulator == AccumulatorInit /\ [][AccStep]_vars

DatasetInit == DsInit /\ CfOff /\ PlOff /\ RepOff /\ AccOff /\ TrOff
    /\ ExOff

SpecDataset == DatasetInit /\ [][GetItem]_vars

TrainingInit == TrInit /\ CfOff /\ PlOff /\ RepOff /\ AccOff /\ DsOff
    /\ ExOff

SpecTraining == TrainingInit /\ [][TrNext]_vars

ExtractInit ==
    ExInit /\ CfOff /\ PlOff /\ RepOff /\ AccOff /\ DsOff /\ TrOff

SpecExtract == ExtractInit /\ [][ExNext]_vars

-----------------------------------------------------------------------------
(* Properties of compute_features and uniform_frame_sample *)

Padded == cf_pc \in {"padded", "warm", "saved"}

RealFramesIn(w) == {j \in 1..Len(w) : ~w[j].pad}

\* C1: with R = 45 and S = 4 the clip is left-padded with 47 copies of the
\* first frame, and for num_timesteps = 1 the first saved feature is the
\* output whose window ends on real frame 0: that window holds exactly one
\* real frame, every frame consumed before it is padding, and every saved
\* feature has a real frame in its window.
C1_FirstFeatureIsFirstRealFrame ==
    /\ MODEL_TEMPORAL_DEPENDENCY = 45 /\ MODEL_TEMPORAL_STRIDE = 4
    /\ FramesToAdd = 47
    /\ Padded =>
          /\ Len(clip) = 47 + Len(frames)
          /\ \A i \in 1..Len(clip) : clip[i].pad <=> i <= 47
          /\ \A i \in 1..47 : clip[i].orig = frames[1]
    /\ (cf_pc = "warm" /\ num_timesteps = 1) =>
          LET g == LastN(pre_features, num_timesteps)[1] IN
             /\ ~seen[g].pad /\ seen[g].pos = 0
             /\ \A j \in 1..Len(seen) : j # g => seen[j].pad
    /\ (cf_pc = "saved" /\ num_timesteps = 1) =>
          /\ ~seen[features[1]].pad /\ seen[features[1]].pos = 0
          /\ Cardinality(RealFramesIn(Window(features[1]))) = 1
          /\ \A j \in 1..(features[1] - 1) : seen[j].pad
          /\ \A k \in 1..Len(features) : RealFramesIn(Window(features[k])) # {}

C1_Witness ==
    /\ cf_pc = "saved" /\ num_timesteps = 1 /\ Len(frames) >= 9
    /\ Len(features) >= 3 /\ seen[features[1]].pos = 0

\* C2: every video with at least one frame, at any source frame rate, is
\* processed without error and the saved feature array has at least one row.
C2_AtLeastOneFeature ==
    /\ depth >= 1 => cf_pc # "error"
    /\ cf_pc \in {"sampled", "padded", "warm", "saved"} => Len(frames) >= 1
    /\ cf_pc = "saved" => Len(features) >= 1

C2_Witness ==
    /\ cf_pc = "saved" /\ depth = 1 /\ Len(features) = 1

\* C3: for num_timesteps = 1 the k-th saved feature (k = 0, 1, 2, ...) is the
\* output whose window ends on real frame S*k, in that order, and there is one
\* for every stride position of the video: nothing is skipped or repeated
\* between the warm-up call and the call on the remaining frames.
C3_StepsGapFree ==
    (cf_pc = "saved" /\ num_timesteps = 1) =>
        /\ Len(features) = 1 + (Len(frames) - 1) \div MODEL_TEMPORAL_STRIDE
        /\ \A k \in 1..Len(features) :
              /\ ~seen[features[k]].pad
              /\ seen[features[k]].pos = MODEL_TEMPORAL_STRIDE * (k - 1)
        /\ \A k \in 1..(Len(features) - 1) : features[k] < features[k + 1]

C3_Witness ==
    /\ cf_pc = "saved" /\ num_timesteps = 1 /\ Len(features) >= 4
    /\ seen[features[4]].pos = 3 * MODEL_TEMPORAL_STRIDE

ShortStream ==
    /\ cf_pc = "saved"
    /\ 1 <= Len(frames) /\ Len(frames) < MODEL_TEMPORAL_DEPENDENCY

\* C4 as stated: a stream shorter than R is padded with its last frame and
\* yields exactly one result (with the default num_timesteps = 1).
C4_Original ==
    (ShortStream /\ num_timesteps = 1) =>
        /\ \A i \in 1..Len(clip) : clip[i].pad => clip[i].orig = frames[Len(frames)]
        /\ Len(features) = 1

\* C4 as amended: a stream of 1 <= N < R frames is left-padded with 47 copies
\* of its FIRST frame, and the saved features are the last num_timesteps
\* warm-up outputs followed by one output per S further frames, that is
\* 1 + (N - 1) div S results for num_timesteps = 1: at least one, and exactly
\* one only when N <= S.
C4_ShortStreamFeatures ==
    ShortStream =>
        /\ \A i \in 1..Len(clip) : clip[i].pad <=> i <= FramesToAdd
        /\ \A i \in 1..Len(clip) : clip[i].pad => clip[i].orig = frames[1]
        /\ Len(features) = Min(num_timesteps, Len(pre_features))
                             + (Len(frames) - 1) \div MODEL_TEMPORAL_STRIDE
        /\ Len(features) >= 1
        /\ num_timesteps = 1 =>
              (Len(features) = 1 <=> Len(frames) <= MODEL_TEMPORAL_STRIDE)

C4_Witness ==
    /\ ShortStream /\ num_timesteps = 1
    /\ Len(frames) = MODEL_TEMPORAL_DEPENDENCY - 1
    /\ Len(features) > 1
    /\ clip[1].orig # frames[Len(frames)]

\* C5: from 60 fps to 20 fps (sample_rate = 1/3) exactly one frame in three
\* is selected for every depth >= 1: consecutive selected indices differ by 3,
\* ceil(depth / 3) frames are selected, and the unselected frames before the
\* first and after the last selected frame differ in number by at most 1.
C5_OneInThreeCentred ==
    (cf_pc = "sampled" /\ video_fps = 60 /\ engine_fps = 20) =>
        /\ Len(frames) = (depth + 2) \div 3
        /\ \A i \in 1..Len(frames) : frames[i] \in 0..(depth - 1)
        /\ \A i \in 1..(Len(frames) - 1) : frames[i + 1] - frames[i] = 3
        /\ LET before == frames[1]
               after == depth - 1 - frames[Len(frames)]
           IN before - after \in {-1, 0, 1}

C5_Witness ==
    /\ cf_pc = "sampled" /\ video_fps = 60 /\ engine_fps = 20
    /\ depth >= 9 /\ frames[1] = 1 /\ frames[Len(frames)] = depth - 2

-----------------------------------------------------------------------------
(* Properties of the pipeline scheduler *)

\* C6: at every point, and so at every point after a stop signal sent while
\* queue 1 holds N items, every item ever put into queue 1 is exactly one of
\* processed, counted as dropped, or still queued (the three numbers add up to
\* the number enqueued); the inference stage exits only after capture has
\* stopped and queue 1 is drained, the output stage only after the inference
\* stage has exited and queue 2 is drained, so once all stages have exited the
\* N items are all processed or dropped.
C6_ShutdownAccounting ==
    /\ enqueued = processed \cup dropped \cup Range(queue1)
    /\ Cardinality(processed) + Cardinality(dropped) + Len(queue1)
          = Cardinality(enqueued)
    /\ stop => at_stop \subseteq processed \cup dropped \cup Range(queue1)
    /\ inference_state = "exited" =>
          capture_state = "exited" /\ queue1 = <<>> /\ pending = <<>>
    /\ output_state = "exited" =>
          inference_state = "exited" /\ queue2 = <<>>
    /\ (stop /\ output_state = "exited") => at_stop \subseteq processed \cup dropped

C6_Witness ==
    /\ stop /\ Cardinality(at_stop) = QueueCapacity
    /\ output_state = "exited" /\ at_stop \subseteq processed
    /\ dropped # {}

-----------------------------------------------------------------------------
(* Properties of the rep counter *)

C7_Counts ==
    /\ pattern.ph \in {"idle1", "pos1", "pos2"} => count = 0
    /\ pattern.ph = "idle2" => count = 1
    /\ longest_run < Debounce => count = 0

C7_Transitions ==
    /\ count' # count =>
          /\ rep_state = "InRepPosition2" /\ rep_state' = "Idle"
          /\ count' = count + 1
    /\ (rep_state = "InRepPosition2" /\ rep_state' = "Idle"
           /\ last_label' # "background") => count' = count + 1
    /\ (fed' # fed /\ last_label' = "background") =>
          rep_state' = "Idle" /\ count' = count

\* C7: over the label sequence idle^5, more than Debounce position-1, more
\* than Debounce position-2, idle^5 the count goes from 0 to exactly 1 (and is
\* still 0 before the first idle label after position-2); while every run of
\* position-1 labels is shorter than Debounce the count stays 0; the count
\* changes only by +1 and only on the step InRepPosition2 -> Idle, and a
\* background label leads to Idle with the count unchanged.
C7_RepCounter == []C7_Counts /\ [][C7_Transitions]_vars

C7_Witness ==
    /\ pattern.ph = "idle2" /\ pattern.k = IdleRun /\ count = 1
    /\ fed = 2 * IdleRun + 2 * (Debounce + 1)

-----------------------------------------------------------------------------
(* Properties of the accumulator *)

\* C8: in every step after which all rate estimates so far are positive and
\* the timestamps so far have never decreased, running_total does not
\* decrease, for every length of the smoothing window.
C8_TotalNonDecreasing ==
    [][(all_positive' /\ ts_monotone') => running_total' >= running_total]_vars

C8_Witness ==
    /\ all_positive /\ ts_monotone /\ sample_count = MaxSamples
    /\ running_total > 0 /\ smoothing > 1 /\ Len(rate_window) = smoothing

-----------------------------------------------------------------------------
(* Properties of FeaturesDataset *)

NoAnnotationCrop ==
    /\ ~annotation.present
    /\ ds_num_timesteps # 0 /\ num_preds > ds_num_timesteps

\* C10: without temporal annotation, when num_timesteps is set and
\* num_preds > num_timesteps, the range the position is drawn from is never
\* empty and lies inside [0, num_preds - num_timesteps); and when
\* num_preds - num_timesteps - 1 >= num_frames_padded the position is at least
\* num_frames_padded, so none of the first num_frames_padded features is
\* returned.
C10_PaddedFeaturesDiscarded ==
    NoAnnotationCrop =>
        /\ ds_pc # "error"
        /\ LET low == MinimumPosition(num_preds, ds_num_timesteps,
                           NumFramesPadded(minimum_frames, ds_stride))
           IN 0 <= low /\ low < num_preds - ds_num_timesteps
        /\ ds_pc = "returned" =>
              LET padded == NumFramesPadded(minimum_frames, ds_stride) IN
                /\ position >= 0
                /\ position < num_preds - ds_num_timesteps
                /\ (num_preds - ds_num_timesteps - 1 >= padded) =>
                      /\ position >= padded
                      /\ \A i \in 1..Len(ret_features) : ret_features[i] >= padded

C10_Witness ==
    /\ NoAnnotationCrop /\ ds_pc = "returned"
    /\ minimum_frames = MODEL_TEMPORAL_DEPENDENCY
    /\ ds_stride = MODEL_TEMPORAL_STRIDE
    /\ position = NumFramesPadded(minimum_frames, ds_stride)
    /\ num_preds - ds_num_timesteps - 1 > position
    /\ Len(ret_features) = ds_num_timesteps

Cropping == ds_num_timesteps # 0 /\ num_preds > ds_num_timesteps

\* C11: whenever num_timesteps is set and num_preds > num_timesteps, the
\* features returned have exactly num_timesteps rows, with and without a
\* temporal annotation and for every position drawn, and with a temporal
\* annotation the one entry at the drawn position is returned.
C11_ExactlyNumTimestepsRows ==
    (Cropping /\ ds_pc = "returned") =>
        /\ Len(ret_features) = ds_num_timesteps
        /\ annotation.present =>
              ret_annotation = <<annotation.labels[position + 1]>>

\* the rows and the annotation of a file line up one to one (stride 4), and
\* the last position is drawn
C11_FailingInput ==
    /\ Cropping /\ ds_pc = "returned" /\ annotation.present
    /\ ds_stride = MODEL_TEMPORAL_STRIDE
    /\ Len(annotation.labels) = num_preds
    /\ num_preds = 3 /\ ds_num_timesteps = 2 /\ position = 2
    /\ Len(ret_features) = 1

-----------------------------------------------------------------------------
(* The resampling policy *)

\* n / d rounded to the nearest integer, ties away from zero or to even
RoundHalfUp(n, d) == (2 * n + d) \div (2 * d)

RoundHalfEven(n, d) ==
    LET q == n \div d
        r == n % d
    IN IF 2 * r < d THEN q
       ELSE IF 2 * r > d THEN q + 1
       ELSE IF q % 2 = 0 THEN q ELSE q + 1

Resampled == cf_pc = "sampled" /\ engine_fps < video_fps

Unchanged == cf_pc = "sampled" /\ engine_fps >= video_fps

\* C12 as stated: for ratio < 1 the i-th frame selected is frame
\* round(i / ratio) plus a fixed offset (whichever way ties are rounded); for
\* ratio >= 1 the frames are returned unchanged.
C12_Original ==
    /\ Resampled =>
          \A i \in 1..Len(frames) :
              frames[i] - frames[1] \in
                  {RoundHalfUp((i - 1) * video_fps, engine_fps),
                   RoundHalfEven((i - 1) * video_fps, engine_fps)}
    /\ Unchanged => frames = [i \in 1..depth |-> i - 1]

\* C12 as amended: for ratio < 1 the i-th frame selected (i = 0 .. n-1 with
\* n = ceil(depth * ratio)) is frame floor(i / ratio), truncated and not
\* rounded, plus the fixed offset floor((depth - (n-1) / ratio) / 2), and
\* every selected index lies inside the video; for ratio >= 1 the frames are
\* returned unchanged.
C12_TruncatedIndices ==
    /\ Resampled =>
          LET n == Len(frames)
              off == frames[1]
          IN /\ (n - 1) * video_fps < depth * engine_fps
             /\ depth * engine_fps <= n * video_fps
             /\ 2 * engine_fps * off <= depth * engine_fps - (n - 1) * video_fps
             /\ depth * engine_fps - (n - 1) * video_fps < 2 * engine_fps * (off + 1)
             /\ \A i \in 1..n :
                   /\ frames[i] = ((i - 1) * video_fps) \div engine_fps + off
                   /\ frames[i] \in 0..(depth - 1)
    /\ Unchanged => frames = [i \in 1..depth |-> i - 1]

C12_Witness ==
    /\ Resampled /\ video_fps = 25 /\ engine_fps = 10
    /\ Len(frames) >= 4
    /\ frames[4] - frames[1] = 7
    /\ RoundHalfEven(3 * video_fps, engine_fps) = 8

-----------------------------------------------------------------------------
(* Properties of training_loops *)

\* the metric that selects the best epoch, higher is better
Score(m) == IF temporal_annotation_training THEN 0 - m[1] ELSE m[2]

\* the first epoch (1-based) whose validation metric is the best of all
FirstBestEpoch ==
    CHOOSE e \in 1..Len(valid_metrics) :
        /\ \A f \in 1..Len(valid_metrics) :
              Score(valid_metrics[f]) <= Score(valid_metrics[e])
        /\ \A f \in 1..(e - 1) :
              Score(valid_metrics[f]) < Score(valid_metrics[e])

\* C13: the dictionary training_loops returns holds the parameters as they
\* were at the end of the epoch at which it was kept, whatever training the
\* later epochs have done.
C13_BestParametersKept ==
    (tr_pc \in {"train", "done"} /\ best_state_dict.present) =>
        Held(best_state_dict) = params_at_best

\* two epochs, the first one the best, the second one changing the weights
C13_FailingInput ==
    /\ tr_pc = "done" /\ num_epochs = 2 /\ ~temporal_annotation_training
    /\ valid_metrics[1][2] = 2 /\ valid_metrics[2][2] = 1
    /\ FirstBestEpoch = 1
    /\ best_state_dict.present /\ params_at_best = 1 /\ net_params = 2
    /\ Held(best_state_dict) = 2

-----------------------------------------------------------------------------
(* Properties of extract_features *)

\* C14: compute_features is called at most once for a video the glob finds:
\* once a run has saved its features, every later run skips it.
C14_SavedVideosSkipped ==
    ex_pc # "off" =>
        \A d \in Datasets : \A v \in Glob(videos[d]) : calls[d][v] <= 1

\* one video a.avi in the train set, extract_features run twice
C14_FailingInput ==
    /\ ex_pc = "idle" /\ runs = 2
    /\ videos = [train |-> {<<"a", "avi">>}, valid |-> {}]
    /\ feature_files["train"] = {<<"a", "avi", "npy">>}
    /\ calls["train"][<<"a", "avi">>] = 2

=============================================================================
